---- MODULE Spec2Model ----
(***************************************************************************)
(* FortilogDecoder (fortilog_decoder.py): the scan loop of decode_llogv5,  *)
(* the TLV walker parse_tlc, the two output helpers, process_file and the  *)
(* batch loop of process_dir.  Streams and bodies are sequences of bytes   *)
(* (0..255); a Python offset n is index n+1 of the sequence.               *)
(***************************************************************************)
EXTENDS Integers, Sequences, FiniteSets, TLC

VARIABLES
    sourcefile,   \* [name, ext] of the file being decoded
    stdout,       \* TRUE: outstream is sys.stdout (single-file mode)
    stream,       \* the decompressed bytes behind instream
    pos,          \* instream.tell()
    pc,           \* where control is
    logentries,   \* decode_llogv5's running count
    loc,          \* decode_llogv5's locals after the last loop iteration
    tlc,          \* parse_tlc's locals
    forwarded,    \* every entry handed to output_logs, in order
    written,      \* the lines written to outstream
    diag,         \* the non-debug diagnostics emitted by output_info
    exc,          \* the exception process_file caught ("none" if none)
    srcs,         \* process_dir: the entries os.scandir yields, in order
    idx,          \* process_dir: entries already iterated
    dest,         \* process_dir: the target directory, file -> state
    t,            \* process_dir: the local t ("unbound", "open", "closed")
    tfile,        \* process_dir: the local tfile ("unbound" or a name)
    preexisting   \* the target files that existed before the run

vars == <<sourcefile, stdout, stream, pos, pc, logentries, loc, tlc, forwarded,
          written, diag, exc, srcs, idx, dest, t, tfile, preexisting>>

decodeVars == <<sourcefile, stdout, stream, pos, logentries, loc, tlc, forwarded,
                written, exc>>
dirVars == <<srcs, idx, dest, t, tfile, preexisting>>

-----------------------------------------------------------------------------
(* Bounds of the model. *)
MaxRecords == 2      \* records (templates) concatenated into one input stream
MaxFiles == 2        \* source directory entries of a batch run

-----------------------------------------------------------------------------
(* Module-level constants of the program. *)
debug == FALSE
gz_output_file == FALSE
magic == <<236, 207>>
tlc_magic == <<170, 1>>
tlc_fields == <<"", "devid", "devname", "vdom", "devtype", "logtype", "tmzone",
                "fazid", "srcip", "unused?", "unused?", "num-logs", "unzip-len",
                "incr-zip", "unzip-len-p", "prefix", "zbuf", "logs">>
\* the module-level file_ptr_pos, the one parse_tlc reads
global_file_ptr_pos == 0
\* bytearray(map(ord,"date="))
date_marker == <<100, 97, 116, 101, 61>>

-----------------------------------------------------------------------------
(* Python's bytes operations. *)
Min(a, b) == IF a < b THEN a ELSE b
Max(a, b) == IF a > b THEN a ELSE b

\* s[a:b]: negative bounds count from the end, all bounds are clamped
PySlice(s, a, b) ==
    LET n  == Len(s)
        a1 == IF a < 0 THEN Max(a + n, 0) ELSE Min(a, n)
        b1 == IF b < 0 THEN Max(b + n, 0) ELSE Min(b, n)
    IN IF a1 >= b1 THEN <<>> ELSE SubSeq(s, a1 + 1, b1)

\* s[i] raises IndexError outside -len..len-1
PyIndexOk(s, i) == -Len(s) <= i /\ i < Len(s)
PyIndex(s, i) == IF i < 0 THEN s[Len(s) + i + 1] ELSE s[i + 1]

\* int.from_bytes(s, "big"), unsigned; 0 for the empty slice
RECURSIVE FromBytesBig(_)
FromBytesBig(s) ==
    IF s = <<>> THEN 0
    ELSE FromBytesBig(SubSeq(s, 1, Len(s) - 1)) * 256 + s[Len(s)]

\* int.from_bytes(s, "little"), unsigned
RECURSIVE FromBytesLittle(_)
FromBytesLittle(s) ==
    IF s = <<>> THEN 0 ELSE s[1] + 256 * FromBytesLittle(Tail(s))

\* a big-endian two's-complement integer (struct's h, i, l, q)
SignedBig(s) ==
    IF s[1] >= 128
    THEN FromBytesBig(<<s[1] - 256>> \o Tail(s))
    ELSE FromBytesBig(s)

\* struct.unpack_from(fmt, buffer, offset) needs size bytes at offset; a negative
\* offset counts from the end
UnpackOk(body, offset, size) ==
    LET o == IF offset < 0 THEN offset + Len(body) ELSE offset
    IN o >= 0 /\ Len(body) - o >= size
UnpackBytes(body, offset, size) ==
    LET o == IF offset < 0 THEN offset + Len(body) ELSE offset
    IN SubSeq(body, o + 1, o + size)

\* (vala << 64) | valb on Python integers, for the values the model's inputs hold
ShiftOr64(vala, valb) ==
    IF valb < 0 \/ vala = 0 THEN valb ELSE vala * 65536 * 65536 * 65536 * 65536 + valb

RECURSIVE Concat(_)
Concat(ss) == IF ss = <<>> THEN <<>> ELSE Head(ss) \o Concat(Tail(ss))

RECURSIVE SumSeq(_)
SumSeq(s) == IF s = <<>> THEN 0 ELSE Head(s) + SumSeq(Tail(s))

Last(s) == s[Len(s)]

\* bytes.split(sep): the pieces between the non-overlapping occurrences of sep,
\* found left to right
RECURSIVE PySplitFrom(_, _, _, _)
PySplitFrom(s, sep, start, i) ==
    IF i + Len(sep) - 1 > Len(s)
    THEN <<SubSeq(s, start, Len(s))>>
    ELSE IF SubSeq(s, i, i + Len(sep) - 1) = sep
         THEN <<SubSeq(s, start, i - 1)>>
              \o PySplitFrom(s, sep, i + Len(sep), i + Len(sep))
         ELSE PySplitFrom(s, sep, start, i + 1)
PySplit(s, sep) == PySplitFrom(s, sep, 1, 1)

-----------------------------------------------------------------------------
(* The lz4 library, on the part of its formats the inputs use.               *)
(* A block is token, literals: a last sequence of literals only.  The token's *)
(* high nibble is the literal count (below 15); the input must end with the  *)
(* literals and the output must fit the destination size.                    *)
Lz4BlockOk(compressed, size) ==
    /\ Len(compressed) > 0
    /\ compressed[1] \div 16 < 15
    /\ Len(compressed) = 1 + compressed[1] \div 16
    /\ compressed[1] \div 16 <= size
Lz4Block(compressed) == Tail(compressed)

(* A frame is magic 04 22 4D 18, FLG 60, BD 40, HC 82, one uncompressed block *)
(* (size, little-endian, bit 31 set) and the end mark 00 00 00 00.           *)
Lz4FrameHeader == <<4, 34, 77, 24, 96, 64, 130>>
Lz4FrameOk(array) ==
    /\ Len(array) >= 15
    /\ SubSeq(array, 1, 7) = Lz4FrameHeader
    /\ array[9] = 0 /\ array[10] = 0 /\ array[11] = 128
    /\ Len(array) = 15 + array[8]
    /\ SubSeq(array, Len(array) - 3, Len(array)) = <<0, 0, 0, 0>>
Lz4Frame(array) == SubSeq(array, 12, 11 + array[8])

\* bytes.decode(sys.stdout.encoding) of an entry: every byte below 0x80 decodes;
\* the only other byte the inputs hold is 0xFF, which no UTF-8 text contains
Decodable(entry) == \A i \in 1..Len(entry) : entry[i] < 128

-----------------------------------------------------------------------------
(* Names: a path is the sequence of its parts. *)
SrcName(sf) == <<sf.name, sf.ext>>
\* os.path.join(targetdir, f"{srcfile.name}.csv") or ...csv.gz
TargetOf(sf) ==
    IF gz_output_file THEN <<sf.name, sf.ext, "csv", "gz">>
    ELSE <<sf.name, sf.ext, "csv">>
\* the .name of outstream: sys.stdout's, or the target file's
OutName(sf, isStdout) == IF isStdout THEN <<"<stdout>">> ELSE TargetOf(sf)

-----------------------------------------------------------------------------
(* output_info and output_logs. *)
Message(msg, offset, name, count, tag) ==
    [msg |-> msg, offset |-> offset, name |-> name, count |-> count,
     tag |-> tag, dest |-> "console"]

\* output_info(fstr, outstream, typedebug): a debug message is dropped unless
\* debug is set; the message goes to the log file when outstream is sys.stdout
\* and is printed otherwise
output_info(d, m, isStdout, typedebug) ==
    IF typedebug /\ ~debug THEN d
    ELSE Append(d, [m EXCEPT !.dest = IF isStdout THEN "log" ELSE "console"])

\* output_logs: the lines written before the first entry that cannot be decoded
\* (stdout only); entry + b"\x0a" each
RECURSIVE output_logs(_, _)
output_logs(entrieslist, isStdout) ==
    IF entrieslist = <<>> THEN <<>>
    ELSE IF isStdout /\ ~Decodable(Head(entrieslist)) THEN <<>>
    ELSE <<Head(entrieslist) \o <<10>>>> \o output_logs(Tail(entrieslist), isStdout)

\* output_logs raises (UnicodeDecodeError) on stdout at an undecodable entry
output_logs_raises(entrieslist, isStdout) ==
    isStdout /\ \E i \in 1..Len(entrieslist) : ~Decodable(entrieslist[i])

-----------------------------------------------------------------------------
(* decode_llogv5: one iteration of the scan loop. *)
\* instream.read(n) at offset p
ReadAt(s, p, n) == IF n <= 0 THEN <<>> ELSE SubSeq(s, p + 1, Min(p + n, Len(s)))

\* the slices when the pointer is not advanced
RECURSIVE SliceEntriesNoAdvance(_, _, _, _, _)
SliceEntriesNoAdvance(entrieslengths, no, lentrycounts, decompressed, pointer) ==
    IF no >= lentrycounts THEN <<>>
    ELSE LET l == FromBytesBig(PySlice(entrieslengths, no, no + 2))
         IN <<PySlice(decompressed, pointer, pointer + l)>>
            \o SliceEntriesNoAdvance(entrieslengths, no + 2, lentrycounts,
                                     decompressed, pointer)

\* lines 136-140: the slices the length table cuts from the decompressed buffer
RECURSIVE SliceEntries(_, _, _, _, _)
SliceEntries(entrieslengths, no, lentrycounts, decompressed, pointer) ==
    IF no >= lentrycounts THEN <<>>
    ELSE LET l == FromBytesBig(PySlice(entrieslengths, no, no + 2))
         IN <<PySlice(decompressed, pointer, pointer + l)>>
            \o SliceEntries(entrieslengths, no + 2, lentrycounts, decompressed,
                            pointer + l)

\* lines 134-142
BlockEntries(entrycount, entrieslengths, decompressed) ==
    IF entrycount > 1
    THEN SliceEntries(entrieslengths, 0, entrycount * 2, decompressed, 0)
    ELSE IF entrycount = 1 THEN <<decompressed>> ELSE <<>>

NoLoc ==
    [kind |-> "none", file_ptr_pos |-> 0, logtype |-> <<>>, pos |-> 0,
     entrycount |-> 0, entrieslengths |-> <<>>, body |-> <<>>,
     decompressed |-> <<>>, entries |-> <<>>, exc |-> "none"]

\* lines 113-151: the block branch, the stream at p just past the tag
BlockBranch(s, p, isStdout, base) ==
    LET head == ReadAt(s, p, 16)
        p2 == p + Len(head)
    IN IF Len(head) < 6
       THEN [base EXCEPT !.kind = "raise", !.exc = "IndexError", !.pos = p2]
       ELSE
       LET flag == (head[1] \div 4) % 2
           ldevid == head[4]
           ldevname == head[5]
           lvdom == head[6]
           entrycount == FromBytesBig(PySlice(head, 6, 8))
           lentrycounts == entrycount * 2
           lsomething == IF flag = 1 THEN lentrycounts ELSE 0
           lcompressed == FromBytesBig(PySlice(head, 8, 10))
           ldecompressed == FromBytesBig(PySlice(head, 10, 12))
           lascii == ldevid + ldevname + lvdom
           body == ReadAt(s, p2, lascii + lentrycounts + lsomething + lcompressed)
           p3 == p2 + Len(body)
           compressed_from == lascii + lentrycounts + lsomething
           entrieslengths == PySlice(body, lascii, lascii + lentrycounts)
           compressed_to == compressed_from + lcompressed
           compressed == PySlice(body, compressed_from, compressed_to)
           read == [base EXCEPT !.entrycount = entrycount,
                                !.entrieslengths = entrieslengths,
                                !.body = body, !.pos = p3]
       IN IF ~Lz4BlockOk(compressed, ldecompressed + 1)
          THEN [read EXCEPT !.kind = "block_fail"]
          ELSE
          LET decompressed == Lz4Block(compressed)
              entries == BlockEntries(entrycount, entrieslengths, decompressed)
              done == [read EXCEPT !.decompressed = decompressed,
                                   !.entries = entries]
              head2 == ReadAt(s, p3, 2)
              body2 == FromBytesLittle(head2)
          IN IF output_logs_raises(entries, isStdout)
             THEN [done EXCEPT !.kind = "block_sinkfail"]
             ELSE [done EXCEPT !.kind = "block_ok",
                               !.pos = Min(p3 + Len(head2) + body2, Len(s))]

\* lines 157-160: the envelope branch up to the call of parse_tlc
EnvelopeBranch(s, p, base) ==
    LET p2 == Min(p + 2, Len(s))
        lraw == ReadAt(s, p2, 4)
        lbody == FromBytesBig(lraw)
        p3 == p2 + Len(lraw)
        size == lbody - 8
    IN IF size < -1
       THEN [base EXCEPT !.kind = "raise", !.exc = "ValueError", !.pos = p3]
       ELSE LET body == IF size = -1 THEN SubSeq(s, p3 + 1, Len(s))
                        ELSE ReadAt(s, p3, size)
            IN [base EXCEPT !.kind = "envelope", !.body = body,
                            !.pos = p3 + Len(body)]

\* the dispatch when an unknown tag is skipped like padding
IterationResync(s, p, isStdout) ==
    LET logtype == ReadAt(s, p, 2)
        p1 == p + Len(logtype)
        base == [NoLoc EXCEPT !.file_ptr_pos = p, !.logtype = logtype, !.pos = p1]
    IN IF logtype = magic THEN BlockBranch(s, p1, isStdout, base)
       ELSE IF logtype = tlc_magic THEN EnvelopeBranch(s, p1, base)
       ELSE IF Len(logtype) > 0 THEN [base EXCEPT !.kind = "padding"]
       ELSE [base EXCEPT !.kind = "eof"]

\* lines 100-103, 153, 174-181: the dispatch on the tag read at p
Iteration(s, p, isStdout) ==
    LET logtype == ReadAt(s, p, 2)
        p1 == p + Len(logtype)
        base == [NoLoc EXCEPT !.file_ptr_pos = p, !.logtype = logtype, !.pos = p1]
    IN IF logtype = magic THEN BlockBranch(s, p1, isStdout, base)
       ELSE IF logtype = tlc_magic THEN EnvelopeBranch(s, p1, base)
       ELSE IF logtype = <<0, 0>> \/ logtype = <<0>>
            THEN [base EXCEPT !.kind = "padding"]
       ELSE IF Len(logtype) > 0 THEN [base EXCEPT !.kind = "unknown"]
       ELSE [base EXCEPT !.kind = "eof"]

-----------------------------------------------------------------------------
(* parse_tlc: one iteration of the walk over the body. *)
Unset == [set |-> FALSE, v |-> 0]
UnsetArray == [set |-> FALSE, v |-> <<>>]
IsSet(x) == [set |-> TRUE, v |-> x]

EmptyTlc ==
    [body |-> <<>>, pointer |-> 0, lunzipped |-> 0, value |-> Unset,
     array |-> UnsetArray, walked |-> {}, status |-> "walking",
     result |-> <<>>, decomp |-> "none", exc |-> "none", msgs |-> <<>>]

\* a call that keeps lunzipped from the call before
TlcStartStale(body, prev) ==
    [EmptyTlc EXCEPT !.body = body, !.lunzipped = prev.lunzipped]

\* lines 184, 189-190: the locals at the start of a call; body is the argument,
\* prev the locals the call before left behind
TlcStart(body, prev) == [EmptyTlc EXCEPT !.body = body]

\* lines 197-224: the value of the field whose two header bytes end at p2
DecodeValue(c, p2, typehigh) ==
    LET body == c.body
        raise(e) == [c EXCEPT !.status = "raised", !.exc = e]
        arr(larray, width) ==
            [c EXCEPT !.array = IsSet(PySlice(body, p2 + width, p2 + width + larray)),
                      !.pointer = p2 + width + larray]
        val(v, width) == [c EXCEPT !.value = IsSet(v), !.pointer = p2 + width]
    IN CASE typehigh = 0 ->
              IF PyIndexOk(body, p2) THEN arr(PyIndex(body, p2), 1)
              ELSE raise("IndexError")
         [] typehigh = 1 ->
              IF UnpackOk(body, p2, 2)
              THEN arr(SignedBig(UnpackBytes(body, p2, 2)), 2)
              ELSE raise("struct.error")
         [] typehigh = 2 ->
              IF UnpackOk(body, p2, 4)
              THEN arr(FromBytesBig(UnpackBytes(body, p2, 4)), 4)
              ELSE raise("struct.error")
         [] typehigh = 3 ->
              IF PyIndexOk(body, p2) THEN val(PyIndex(body, p2), 1)
              ELSE raise("IndexError")
         [] typehigh = 4 ->
              IF UnpackOk(body, p2, 2)
              THEN val(SignedBig(UnpackBytes(body, p2, 2)), 2)
              ELSE raise("struct.error")
         [] typehigh = 5 ->
              IF UnpackOk(body, p2, 4)
              THEN val(SignedBig(UnpackBytes(body, p2, 4)), 4)
              ELSE raise("struct.error")
         [] typehigh = 6 ->
              IF UnpackOk(body, p2, 4)
              THEN val(SignedBig(UnpackBytes(body, p2, 4)), 8)
              ELSE raise("struct.error")
         [] typehigh = 7 ->
              IF UnpackOk(body, p2, 16)
              THEN val(ShiftOr64(SignedBig(UnpackBytes(body, p2, 8)),
                                 SignedBig(UnpackBytes(body, p2 + 8, 8))), 16)
              ELSE raise("struct.error")
         [] OTHER -> [c EXCEPT !.pointer = p2]

\* lines 230-240: the zbuf field; outname is the .name of the stream parse_tlc
\* received as its second argument
ZbufField(c, outname) ==
    IF c.lunzipped = 0
    THEN [c EXCEPT !.status = "returned", !.result = <<>>,
                   !.msgs = <<Message("Error: Could not decode tlc entry",
                                      global_file_ptr_pos, outname, -1, <<>>)>>]
    ELSE IF ~c.array.set
    THEN [c EXCEPT !.status = "raised", !.exc = "UnboundLocalError"]
    ELSE IF Len(c.array.v) = 0
    THEN [c EXCEPT !.status = "returned", !.result = <<>>,
                   !.msgs = <<Message("Error: Could not decode tlc entry",
                                      global_file_ptr_pos, outname, -1, <<>>)>>]
    ELSE IF ~Lz4FrameOk(c.array.v)
    THEN [c EXCEPT !.status = "returned", !.result = <<>>, !.decomp = "failed",
                   !.msgs = <<Message("Error: Skipped entry - LZ4 decompression failed",
                                      global_file_ptr_pos, outname, -1, <<>>)>>]
    ELSE [c EXCEPT !.status = "returned", !.result = Lz4Frame(c.array.v),
                   !.decomp = "done"]

\* lines 226-240: what the field's name makes of it
FieldAction(c, fieldid, outname) ==
    IF fieldid + 1 > Len(tlc_fields)
    THEN [c EXCEPT !.status = "raised", !.exc = "IndexError"]
    ELSE LET name == tlc_fields[fieldid + 1]
             seen == [c EXCEPT !.walked = c.walked \cup {fieldid}]
         IN IF name = "unzip-len"
            THEN IF c.value.set THEN [seen EXCEPT !.lunzipped = c.value.v]
                 ELSE [c EXCEPT !.status = "raised", !.exc = "UnboundLocalError"]
            ELSE IF name = "num-logs"
            THEN IF c.value.set THEN seen
                 ELSE [c EXCEPT !.status = "raised", !.exc = "UnboundLocalError"]
            ELSE IF name = "zbuf" THEN ZbufField(seen, outname)
            ELSE seen

\* lines 191-240: one iteration of the while loop, entered with pointer < len(body)
TlcStep(c, outname) ==
    IF ~PyIndexOk(c.body, c.pointer) \/ ~PyIndexOk(c.body, c.pointer + 1)
    THEN [c EXCEPT !.status = "raised", !.exc = "IndexError"]
    ELSE LET typehigh == PyIndex(c.body, c.pointer) \div 16
             fieldid == PyIndex(c.body, c.pointer + 1)
             valued == DecodeValue(c, c.pointer + 2, typehigh)
         IN IF valued.status = "raised" THEN valued
            ELSE FieldAction(valued, fieldid, outname)

\* line 242: the body is exhausted
TlcExhausted(c) == [c EXCEPT !.status = "returned", !.result = <<>>]

-----------------------------------------------------------------------------
(* decode_llogv5, lines 162-170: the entries of an envelope's payload. *)
RECURSIVE EnvelopePieces(_)
EnvelopePieces(pieces) ==
    IF pieces = <<>> THEN <<>>
    ELSE LET entryparts == PySplit(Head(pieces), date_marker)
         IN (IF Len(entryparts) # 2 THEN <<>>
             ELSE <<date_marker \o entryparts[2]>>)
            \o EnvelopePieces(Tail(pieces))

EnvelopeEntries(buf) == EnvelopePieces(PySplit(buf, <<0>>))

-----------------------------------------------------------------------------
(* The diagnostics of the program. *)
MsgLz4Failed(offset, name) ==
    Message("Error: Skipped entry - LZ4 decompression failed", offset, name, -1, <<>>)
MsgUnknownHeader(sf, logtype, offset) ==
    Message("Failed to decode file - unknown header", offset, SrcName(sf), -1, logtype)
MsgDone(sf, count) == Message("Done", -1, SrcName(sf), count, <<>>)
MsgSkippedFile(sf) ==
    Message("Skipped - failed to open file", -1, SrcName(sf), -1, <<>>)
MsgSkippedExists(sf) ==
    Message("Skipped - already exists in destination", -1, SrcName(sf), -1, <<>>)
MsgDeleted(name) ==
    Message("Deleted last processed and maybe incomplete file", -1, name, -1, <<>>)

IsError(m) ==
    m.msg \in {"Error: Skipped entry - LZ4 decompression failed",
               "Error: Could not decode tlc entry"}

-----------------------------------------------------------------------------
(* process_file and decode_llogv5 as steps. *)

\* lines 88-89: process_file's handler, for an exception e out of the try block
Caught(e) ==
    /\ diag' = output_info(diag, MsgSkippedFile(sourcefile), stdout, FALSE)
    /\ exc' = e
    /\ pc' = "returned"

\* lines 79-86: open by suffix, then call decode_llogv5 (lines 97-98)
OpenSource ==
    /\ pc = "open"
    /\ IF sourcefile.ext \in {"gz", "zst"}
       THEN /\ pc' = "scan"
            /\ UNCHANGED <<diag, exc>>
       ELSE Caught("Exception")
    /\ pos' = 0
    /\ logentries' = 0
    /\ UNCHANGED <<sourcefile, stdout, stream, loc, tlc, forwarded, written>>
    /\ UNCHANGED dirVars

\* lines 143-144, 171-173: count the entries, then write them
Forward(entries) ==
    /\ logentries' = logentries + Len(entries)
    /\ forwarded' = forwarded \o entries
    /\ written' = written \o output_logs(entries, stdout)

\* lines 99-181: one iteration of the scan loop (an envelope: up to parse_tlc's call)
ScanStep ==
    /\ pc = "scan"
    /\ LET it == Iteration(stream, pos, stdout)
       IN /\ loc' = it
          /\ pos' = it.pos
          /\ CASE it.kind = "block_ok" ->
                    /\ Forward(it.entries)
                    /\ pc' = "scan"
                    /\ UNCHANGED <<diag, exc, tlc>>
               [] it.kind = "block_sinkfail" ->
                    /\ Forward(it.entries)
                    /\ diag' = output_info(diag,
                                   MsgLz4Failed(it.file_ptr_pos, SrcName(sourcefile)),
                                   stdout, FALSE)
                    /\ pc' = "scan"
                    /\ UNCHANGED <<exc, tlc>>
               [] it.kind = "block_fail" ->
                    /\ diag' = output_info(diag,
                                   MsgLz4Failed(it.file_ptr_pos, SrcName(sourcefile)),
                                   stdout, FALSE)
                    /\ pc' = "scan"
                    /\ UNCHANGED <<logentries, forwarded, written, exc, tlc>>
               [] it.kind = "envelope" ->
                    /\ tlc' = TlcStart(it.body, tlc)
                    /\ pc' = "tlc"
                    /\ UNCHANGED <<logentries, forwarded, written, diag, exc>>
               [] it.kind = "padding" ->
                    /\ pc' = "scan"
                    /\ UNCHANGED <<logentries, forwarded, written, diag, exc, tlc>>
               [] it.kind = "unknown" ->
                    /\ diag' = output_info(diag,
                                   MsgUnknownHeader(sourcefile, it.logtype,
                                                    it.file_ptr_pos),
                                   stdout, FALSE)
                    /\ pc' = "returned"
                    /\ UNCHANGED <<logentries, forwarded, written, exc, tlc>>
               [] it.kind = "eof" ->
                    /\ diag' = output_info(diag, MsgDone(sourcefile, logentries),
                                           stdout, FALSE)
                    /\ pc' = "returned"
                    /\ UNCHANGED <<logentries, forwarded, written, exc, tlc>>
               [] it.kind = "raise" ->
                    /\ Caught(it.exc)
                    /\ UNCHANGED <<logentries, forwarded, written, tlc>>
    /\ UNCHANGED <<sourcefile, stdout, stream>>
    /\ UNCHANGED dirVars

\* parse_tlc, lines 191-240: one field.  The call at line 161 passes outstream
\* where parse_tlc expects instream and instream where it expects outstream, so
\* the name in a message is outstream's and output_info never sees sys.stdout.
ParseField ==
    /\ pc = "tlc"
    /\ tlc.pointer < Len(tlc.body)
    /\ LET c == TlcStep(tlc, OutName(sourcefile, stdout))
           said == IF c.msgs = <<>> THEN diag
                   ELSE output_info(diag, c.msgs[1], FALSE, FALSE)
       IN /\ tlc' = c
          /\ CASE c.status = "raised" ->
                    /\ diag' = output_info(said, MsgSkippedFile(sourcefile),
                                           stdout, FALSE)
                    /\ exc' = c.exc
                    /\ pc' = "returned"
               [] c.status = "returned" ->
                    /\ diag' = said
                    /\ pc' = "tlcdone"
                    /\ UNCHANGED exc
               [] OTHER ->
                    /\ diag' = said
                    /\ pc' = "tlc"
                    /\ UNCHANGED exc
    /\ UNCHANGED <<sourcefile, stdout, stream, pos, logentries, loc, forwarded,
                   written>>
    /\ UNCHANGED dirVars

\* parse_tlc, lines 191 and 242: the loop ends without a zbuf field
ParseExhausted ==
    /\ pc = "tlc"
    /\ tlc.pointer >= Len(tlc.body)
    /\ tlc' = TlcExhausted(tlc)
    /\ pc' = "tlcdone"
    /\ UNCHANGED <<sourcefile, stdout, stream, pos, logentries, loc, forwarded,
                   written, diag, exc>>
    /\ UNCHANGED dirVars

\* lines 162-173: back in decode_llogv5 with parse_tlc's buffer
EnvelopeFinish ==
    /\ pc = "tlcdone"
    /\ LET entries == EnvelopeEntries(tlc.result)
       IN /\ loc' = [loc EXCEPT !.kind = "envelope_done", !.entries = entries,
                                !.decompressed = tlc.result]
          /\ Forward(entries)
          /\ IF output_logs_raises(entries, stdout)
             THEN Caught("UnicodeDecodeError")
             ELSE /\ pc' = "scan"
                  /\ UNCHANGED <<diag, exc>>
    /\ UNCHANGED <<sourcefile, stdout, stream, pos, tlc>>
    /\ UNCHANGED dirVars

-----------------------------------------------------------------------------
(* process_dir as steps. *)
Targets == {TargetOf([name |-> n, ext |-> e]) : n \in {"a", "b", "c"},
                                                e \in {"gz", "txt"}}

\* lines 53-66: the next directory entry: skip it when its target exists, else
\* open the target for writing and call process_file
DirNext ==
    /\ pc = "dir"
    /\ idx < Len(srcs)
    /\ LET srcfile == srcs[idx + 1]
           sf == [name |-> srcfile.name, ext |-> srcfile.ext]
       IN /\ tfile' = TargetOf(sf)
          /\ IF dest[TargetOf(sf)] # "absent"
             THEN /\ diag' = output_info(diag, MsgSkippedExists(sf), FALSE, FALSE)
                  /\ idx' = idx + 1
                  /\ pc' = "dir"
                  /\ UNCHANGED <<t, dest, decodeVars>>
             ELSE /\ t' = "open"
                  /\ dest' = [dest EXCEPT ![TargetOf(sf)] = "partial"]
                  /\ sourcefile' = sf
                  /\ stream' = srcfile.content
                  /\ pos' = 0
                  /\ logentries' = 0
                  /\ loc' = NoLoc
                  /\ forwarded' = <<>>
                  /\ written' = <<>>
                  /\ exc' = "none"
                  /\ pc' = "open"
                  /\ UNCHANGED <<idx, diag, stdout, tlc>>
    /\ UNCHANGED <<srcs, preexisting>>

\* line 67: process_file has returned, t.close()
DirClose ==
    /\ pc = "returned"
    /\ t = "open"
    /\ t' = "closed"
    /\ dest' = [dest EXCEPT ![tfile] = "complete"]
    /\ idx' = idx + 1
    /\ pc' = "dir"
    /\ UNCHANGED <<diag, tfile, srcs, preexisting>>
    /\ UNCHANGED decodeVars

\* line 68: the directory is exhausted
DirDone ==
    /\ pc = "dir"
    /\ idx = Len(srcs)
    /\ pc' = "exit"
    /\ UNCHANGED <<diag, dirVars, decodeVars>>

\* lines 69-73: a KeyboardInterrupt anywhere in the try block
Interrupt ==
    /\ pc \in {"dir", "open", "scan", "tlc", "tlcdone", "returned"}
    /\ t' = IF t = "open" THEN "closed" ELSE t
    /\ IF tfile = <<>>
       THEN /\ exc' = "UnboundLocalError"
            /\ pc' = "crashed"
            /\ UNCHANGED <<dest, diag>>
       ELSE /\ dest' = [dest EXCEPT ![tfile] = "absent"]
            /\ diag' = output_info(diag, MsgDeleted(tfile), FALSE, FALSE)
            /\ exc' = "KeyboardInterrupt"
            /\ pc' = "exit"
    /\ UNCHANGED <<sourcefile, stdout, stream, pos, logentries, loc, tlc, forwarded,
                   written, srcs, idx, tfile, preexisting>>

-----------------------------------------------------------------------------
(* Input streams: records built byte by byte, then concatenated. *)
BE2(n) == <<n \div 256, n % 256>>
LE2(n) == <<n % 256, n \div 256>>
Zeros(n) == [i \in 1..n |-> 0]

\* a block record: tag, 16-byte header, ascii fields, length table, padding when
\* flag is set, compressed payload, trailer length and trailer
BlockRecord(flag, ascii, entrycount, table, compressed, ldecompressed, trailer) ==
    magic \o <<flag * 4, 0, 0, Len(ascii), 0, 0>> \o BE2(entrycount)
          \o BE2(Len(compressed)) \o BE2(ldecompressed) \o <<0, 0, 0, 0>>
          \o ascii \o table \o (IF flag = 1 THEN Zeros(2 * entrycount) ELSE <<>>)
          \o compressed \o LE2(Len(trailer)) \o trailer
\* the block of literals that decompresses to d
Literal(d) == <<Len(d) * 16>> \o d
\* the frame that decompresses to d
Frame(d) == Lz4FrameHeader \o <<Len(d), 0, 0, 128>> \o d \o <<0, 0, 0, 0>>
\* an envelope record: tag, reserved, total length, body
Envelope(body) == tlc_magic \o <<0, 0, 0, 0>> \o BE2(Len(body) + 8) \o body
ArrayField(fieldid, a) == <<0, fieldid, Len(a)>> \o a
ByteField(fieldid, v) == <<48, fieldid, v>>
ShortField(fieldid, v) == <<64, fieldid>> \o BE2(v)

BlockTemplates ==
    { \* two entries, the table sums to the payload
      BlockRecord(0, <<70>>, 2, <<0, 1, 0, 2>>, Literal(<<97, 98, 99>>), 3, <<>>),
      \* one entry, the table ignored; padding region; a trailer of two bytes
      BlockRecord(1, <<>>, 1, <<0, 1>>, Literal(<<120, 121>>), 2, <<7, 7>>),
      \* no entry
      BlockRecord(0, <<>>, 0, <<>>, Literal(<<113>>), 1, <<>>),
      \* two entries, the table exceeds the payload; a trailer of one byte
      BlockRecord(0, <<>>, 2, <<0, 1, 0, 5>>, Literal(<<97, 98, 99>>), 3, <<9>>),
      \* corrupted payload (five literals announced, one present), no trailer
      BlockRecord(0, <<>>, 1, <<0, 1>>, <<80, 97>>, 1, <<>>),
      \* corrupted payload, a trailer of one byte
      BlockRecord(0, <<>>, 1, <<0, 1>>, <<80, 97>>, 1, <<7>>),
      \* the second entry is not text
      BlockRecord(0, <<>>, 2, <<0, 1, 0, 1>>, Literal(<<97, 255>>), 2, <<>>),
      \* the header cut short
      magic \o <<0, 0, 0>> }

DateA == date_marker \o <<97>>
DateB == date_marker \o <<98>>

EnvelopeTemplates ==
    { \* num-logs, unzip-len, zbuf: "date=a" 00 "hdr" 00 "zdate=b"
      Envelope(ByteField(11, 2) \o ShortField(12, 18)
               \o ArrayField(16, Frame(DateA \o <<0, 104, 100, 114, 0, 122>> \o DateB))),
      \* zbuf before unzip-len
      Envelope(ArrayField(16, Frame(DateA)) \o ShortField(12, 6)),
      \* an empty zbuf after unzip-len
      Envelope(ShortField(12, 6) \o ArrayField(16, <<>>)),
      \* a field id outside the table
      Envelope(ByteField(18, 0) \o ShortField(12, 6) \o ArrayField(16, Frame(DateA))),
      \* no zbuf field
      Envelope(ArrayField(1, <<70, 71>>)),
      \* zbuf is no frame
      Envelope(ShortField(12, 6) \o ArrayField(16, <<1, 2, 3>>)),
      \* a piece with the marker twice, a piece with the marker once
      Envelope(ShortField(12, 19) \o ArrayField(16, Frame(DateA \o DateB \o <<0>> \o DateB))),
      \* a 2-byte length prefix with the sign bit set
      Envelope(ByteField(1, 5) \o <<16, 1, 255, 249>>),
      \* every category of field, then unzip-len and zbuf
      Envelope(<<16, 2, 0, 1, 65>> \o <<32, 3, 0, 0, 0, 1, 66>> \o <<80, 6, 0, 0, 0, 1>>
               \o <<96, 7, 0, 0, 0, 1, 0, 0, 0, 0>> \o <<112, 8>> \o Zeros(16)
               \o <<128, 9>> \o <<240, 10>> \o ByteField(12, 6)
               \o ArrayField(16, Frame(DateA))),
      \* unzip-len as an array: no value decoded yet
      Envelope(ArrayField(12, <<1>>)),
      \* total length 0
      tlc_magic \o <<0, 0, 0, 0, 0, 0>> }

OtherTemplates == { <<0, 0>>, <<0>>, <<255, 255>> }

Templates == BlockTemplates \cup EnvelopeTemplates \cup OtherTemplates

RECURSIVE StreamsOf(_)
StreamsOf(n) ==
    IF n = 0 THEN {<<>>}
    ELSE LET shorter == StreamsOf(n - 1)
         IN shorter \cup {s \o r : s \in shorter, r \in Templates}

Streams == StreamsOf(MaxRecords)

\* the contents of the files of a batch run
DirStreams == StreamsOf(1)

-----------------------------------------------------------------------------
(* The specifications. *)
InitDecode ==
    /\ pos = 0
    /\ logentries = 0
    /\ loc = NoLoc
    /\ tlc = EmptyTlc
    /\ forwarded = <<>>
    /\ written = <<>>
    /\ diag = <<>>
    /\ exc = "none"

\* one call process_file(sourcefile, outstream), outstream sys.stdout or a file
Init ==
    /\ \E e \in {"gz", "zst", "txt"} : sourcefile = [name |-> "a", ext |-> e]
    /\ stdout \in BOOLEAN
    /\ stream \in (IF sourcefile.ext = "gz" THEN Streams ELSE StreamsOf(1))
    /\ pc = "open"
    /\ InitDecode
    /\ srcs = <<>>
    /\ idx = 0
    /\ dest = [f \in Targets |-> "absent"]
    /\ t = "unbound"
    /\ tfile = <<>>
    /\ preexisting = {}

Next == OpenSource \/ ScanStep \/ ParseField \/ ParseExhausted \/ EnvelopeFinish

Spec == Init /\ [][Next]_vars

\* one call process_dir(sourcedir, targetdir)
DirEntries ==
    {[name |-> n, ext |-> "gz", content |-> c] : n \in {"a", "b", "c"}, c \in DirStreams}
    \cup {[name |-> n, ext |-> "txt", content |-> <<>>] : n \in {"a", "b", "c"}}

InitDir ==
    /\ \E k \in 0..MaxFiles :
          srcs \in {q \in [1..k -> DirEntries] :
                       \A i \in 1..k : q[i].name = <<"a", "b", "c">>[i]}
    /\ preexisting \in SUBSET {f \in Targets : f[2] = "gz"}
    /\ dest = [f \in Targets |-> IF f \in preexisting THEN "pre" ELSE "absent"]
    /\ idx = 0
    /\ t = "unbound"
    /\ tfile = <<>>
    /\ sourcefile = [name |-> "", ext |-> ""]
    /\ stdout = FALSE
    /\ stream = <<>>
    /\ pc = "dir"
    /\ InitDecode

NextDir ==
    \/ DirNext \/ DirClose \/ DirDone \/ Interrupt
    \/ OpenSource \/ ScanStep \/ ParseField \/ ParseExhausted \/ EnvelopeFinish

SpecDir == InitDir /\ [][NextDir]_vars

-----------------------------------------------------------------------------
(* What the properties read off the stream, independently of the decoder. *)

\* the tag a scan step at pos will read
TagAhead == SubSeq(stream, pos + 1, Min(pos + 2, Len(stream)))
\* byte i of the 16-byte header of the block record whose tag is at pos
HeaderByte(i) == stream[pos + 2 + i + 1]
HeaderEntryCount == HeaderByte(6) * 256 + HeaderByte(7)
\* entry i (from 1) of the length table of the block record whose tag is at pos
TableEntry(i) ==
    LET at == pos + 2 + 16 + HeaderByte(3) + HeaderByte(4) + HeaderByte(5) + 2 * (i - 1)
    IN stream[at + 1] * 256 + stream[at + 2]
\* the first byte after the trailer whose 2-byte length starts at offset p
TrailerEnd(p) ==
    LET head2 == SubSeq(stream, p + 1, Min(p + 2, Len(stream)))
    IN Min(p + Len(head2) + FromBytesLittle(head2), Len(stream))
\* the entries appended to forwarded by a step
NewlyForwarded == SubSeq(forwarded', Len(forwarded) + 1, Len(forwarded'))
KeepsForwarded == SubSeq(forwarded', 1, Len(forwarded)) = forwarded

\* the field a parse step at tlc.pointer will walk
FieldAhead ==
    /\ pc = "tlc"
    /\ tlc.pointer < Len(tlc.body)
    /\ PyIndexOk(tlc.body, tlc.pointer)
    /\ PyIndexOk(tlc.body, tlc.pointer + 1)
FieldIdAhead == PyIndex(tlc.body, tlc.pointer + 1)
TypeHighAhead == PyIndex(tlc.body, tlc.pointer) \div 16
ValueAhead == DecodeValue(tlc, tlc.pointer + 2, TypeHighAhead)

\* the suffix of piece from the first occurrence of the marker; <<>> without one
MarkerPositions(piece) ==
    {i \in 1..Len(piece) : SubSeq(piece, i, Min(i + 4, Len(piece))) = date_marker}
RECURSIVE MarkedSuffixes(_)
MarkedSuffixes(pieces) ==
    IF pieces = <<>> THEN <<>>
    ELSE LET at == MarkerPositions(Head(pieces))
         IN (IF at = {} THEN <<>>
             ELSE <<SubSeq(Head(pieces),
                           CHOOSE i \in at : \A j \in at : i <= j,
                           Len(Head(pieces)))>>)
            \o MarkedSuffixes(Tail(pieces))

-----------------------------------------------------------------------------
(* The claims. *)

\* C1: a block record whose payload decompresses hands exactly entryCount entries
\* to output_logs, after those already forwarded: with entryCount = 1 the one
\* entry is the whole decompressed buffer; with entryCount = N > 1 and a length
\* table that sums to the buffer's length, entry i has length table[i] and the
\* entries concatenate to the buffer (so entry i is the slice at the sum of the
\* lengths before it); with entryCount = 0 nothing is forwarded.
C1_BlockEntriesForwarded ==
    [][(pc = "scan" /\ loc'.kind \in {"block_ok", "block_sinkfail"}) =>
        LET N == HeaderEntryCount
            d == loc'.decompressed
            new == NewlyForwarded
        IN /\ KeepsForwarded
           /\ Len(new) = N
           /\ N = 1 => new = <<d>>
           /\ (N > 1 /\ SumSeq([i \in 1..N |-> TableEntry(i)]) = Len(d)) =>
                 /\ Concat(new) = d
                 /\ \A i \in 1..N : Len(new[i]) = TableEntry(i)
       ]_vars

\* C1 witness: a block record of two entries cut by a table that sums to the
\* payload has been decoded and forwarded
C1_Witness ==
    /\ loc.kind = "block_ok"
    /\ loc.entrycount = 2
    /\ loc.decompressed = <<97, 98, 99>>
    /\ forwarded = <<<<97>>, <<98, 99>>>>

\* C2: when block decompression fails the record forwards no entry and emits
\* exactly one error diagnostic, and the scanner resumes at the first byte after
\* the record's trailer (a zero trailer length read back as a padding tag counts
\* as consumed), whatever the trailer length.
C2_TrailerSkippedOnFailure ==
    /\ [][(pc = "scan" /\ loc'.kind = "block_fail") =>
            /\ forwarded' = forwarded
            /\ Len(diag') = Len(diag) + 1
            /\ IsError(Last(diag'))]_vars
    /\ [][(pc = "scan" /\ loc.kind = "block_fail") =>
            \/ pos = TrailerEnd(loc.pos)
            \/ loc'.kind = "padding" /\ pos' = TrailerEnd(loc.pos)]_vars

\* C3: when the walker reaches a field whose fieldId is outside the 18-entry
\* table, parse_tlc returns the empty buffer, no exception escapes it and the
\* scan goes on with the next tag.
C3_FieldIdChecked ==
    [][(FieldAhead /\ FieldIdAhead >= Len(tlc_fields)
        /\ ValueAhead.status # "raised") =>
        /\ tlc'.status = "returned"
        /\ tlc'.result = <<>>
        /\ exc' = "none"
        /\ pc' = "tlcdone"]_vars

\* C4: a zbuf field reached before any unzip-len field has been decoded, or a
\* zbuf field whose array is empty, makes parse_tlc return the empty buffer at
\* that field, with no decompression attempted and exactly one error diagnostic,
\* whatever earlier fields or earlier records left behind.
C4_ZbufWithoutUnzipLen ==
    [][(/\ FieldAhead
        /\ FieldIdAhead = 16
        /\ ValueAhead.status # "raised"
        /\ \/ 12 \notin tlc.walked
           \/ TypeHighAhead <= 2 /\ ValueAhead.array.v = <<>>) =>
        /\ pc' = "tlcdone"
        /\ tlc'.status = "returned"
        /\ tlc'.result = <<>>
        /\ tlc'.decomp = "none"
        /\ tlc'.walked = tlc.walked \cup {16}
        /\ Len(diag') = Len(diag) + 1
        /\ Last(diag').msg = "Error: Could not decode tlc entry"
        /\ SubSeq(diag', 1, Len(diag)) = diag]_vars

\* C4 witness: parse_tlc has returned empty at a zbuf field with no unzip-len
\* field walked before it, after an earlier record was decoded
C4_Witness ==
    /\ pc = "tlcdone"
    /\ 16 \in tlc.walked
    /\ 12 \notin tlc.walked
    /\ tlc.result = <<>>
    /\ tlc.decomp = "none"
    /\ forwarded # <<>>
    /\ diag # <<>>
    /\ Last(diag).msg = "Error: Could not decode tlc entry"

\* C5: a non-empty tag that is neither 0xECCF, 0xAA01 nor all-zero ends the scan:
\* exactly one diagnostic, holding the tag's offset and bytes, nothing read past
\* the tag, nothing forwarded or written, no exception, and decode_llogv5 returns.
C5_UnknownTagEndsScan ==
    [][(/\ pc = "scan"
        /\ TagAhead # <<>>
        /\ TagAhead \notin {magic, tlc_magic, <<0, 0>>, <<0>>}) =>
        /\ Len(diag') = Len(diag) + 1
        /\ SubSeq(diag', 1, Len(diag)) = diag
        /\ Last(diag').msg = "Failed to decode file - unknown header"
        /\ Last(diag').offset = pos
        /\ Last(diag').tag = TagAhead
        /\ pos' = pos + Len(TagAhead)
        /\ forwarded' = forwarded
        /\ written' = written
        /\ exc' = "none"
        /\ pc' = "returned"]_vars

\* C5 witness: the scan has ended at an unknown tag read after a record whose
\* entries were forwarded
C5_Witness ==
    /\ pc = "returned"
    /\ loc.kind = "unknown"
    /\ loc.file_ptr_pos > 0
    /\ forwarded # <<>>
    /\ written # <<>>
    /\ Last(diag).offset = loc.file_ptr_pos
    /\ exc = "none"

\* C6: an envelope whose payload decompresses to a non-empty buffer forwards, in
\* order, one entry per 0x00-delimited piece that contains "date=", the piece's
\* suffix from the marker on, however often the marker occurs in the piece.
C6_EnvelopeEntries ==
    (loc.kind = "envelope_done" /\ loc.decompressed # <<>>) =>
        loc.entries = MarkedSuffixes(PySplit(loc.decompressed, <<0>>))

\* C7: every skipped record (block decompression failure; parse_tlc returning
\* the empty buffer; an unknown fieldId) comes with exactly one error
\* diagnostic, whose offset is the offset at which the record's tag was read.
C7_SkipDiagnosticOffset ==
    [][(\/ pc = "scan" /\ loc'.kind = "block_fail"
        \/ pc = "tlc" /\ tlc'.status = "returned" /\ tlc'.result = <<>>
        \/ FieldAhead /\ FieldIdAhead >= Len(tlc_fields)
                      /\ ValueAhead.status # "raised") =>
        /\ Len(diag') = Len(diag) + 1
        /\ IsError(Last(diag'))
        /\ Last(diag').offset = loc'.file_ptr_pos]_vars

\* C8: in a batch run, interrupted or not, every target file that existed before
\* the run is left as it was, and the output of every source that was decoded
\* and closed is kept.
C8_BatchKeepsFiles ==
    /\ \A f \in preexisting : dest[f] = "pre"
    /\ \A i \in 1..idx :
          LET f == TargetOf([name |-> srcs[i].name, ext |-> srcs[i].ext])
          IN f \notin preexisting => dest[f] = "complete"

\* C9: at a scan that ends at EOF exactly one summary is emitted, and its count
\* is the number of entries written to the output; a record reported skipped
\* adds nothing to the count, which never decreases.
C9_SummaryCount ==
    /\ [](pc = "returned" /\ loc.kind = "eof" =>
            /\ Cardinality({i \in 1..Len(diag) : diag[i].msg = "Done"}) = 1
            /\ Last(diag).msg = "Done"
            /\ Last(diag).count = Len(written))
    /\ [][/\ logentries' >= logentries \/ pc = "open"
          /\ (Len(diag') > Len(diag) /\ IsError(Last(diag'))) =>
                logentries' = logentries]_vars

\* C10: every iteration of the scan loop ends the scan or consumes at least one
\* byte, and the TLV cursor strictly increases with each field walked, so that
\* decode_llogv5 terminates on every finite stream.
C10_CursorAdvances ==
    /\ [][(pc = "scan" /\ pc' \in {"scan", "tlc"}) => pos' > pos]_vars
    /\ [][(pc = "tlc" /\ pc' = "tlc") => tlc'.pointer > tlc.pointer]_vars

====
